---------------------------- MODULE Spec2Model ----------------------------
(***************************************************************************)
(* A model of the beef-flux-store Store class                             *)
(* (src/packages/beef-flux-store/src/base-store.ts): the draft / flush /   *)
(* notify protocol, the listener registry and the seed merge.              *)
(*                                                                         *)
(* JavaScript objects live in a heap of cells addressed by references, so  *)
(* that identity, aliasing, shallow copies and deep clones are different   *)
(* things.  Store methods are operators from a world (the store's fields,  *)
(* the heap and the Store Manager's queue) to a new world and a return     *)
(* value; the actions apply them.  flush is split at its listener calls,   *)
(* because a listener is caller code that may call back into the store.    *)
(***************************************************************************)
EXTENDS Integers, Sequences, FiniteSets, TLC

VARIABLES
    state,            \* Store.state: reference to the committed state object
    _nextState,       \* Store._nextState: reference to the draft, or Null
    dirtyState,       \* Store.dirtyState
    pendingActions,   \* Store.pendingActions
    stateHistory,     \* Store.stateHistory
    listeners,        \* Store.listeners: sequence of callbacks
    debug,            \* Store.debug
    async,            \* Store.config.async
    heap,             \* the JavaScript heap: reference -> cell
    flushQueue,       \* Store Manager: flush requests not yet run
    pc,               \* "idle", or "notify" while flush's forEach is running
    frame,            \* flush's locals while it runs (oldState, forEach index)
                      \* and what the store held when it was called
    calls,            \* the listener calls made by the flush in progress
    handles,          \* the handle each caller was last given by listen
    cycle,            \* the nextState and stateChange calls made since the
                      \* last flush committed
    origin,           \* the committed state of the store a dump was taken of
    modelArray,       \* the collection the keyed-collection helpers work on
    items,            \* the item objects: reference -> fields
    returned,         \* what the last keyed-collection helper call returned
    schema,           \* validate's schema argument
    obj,              \* validate's obj argument
    errors            \* what validate returned

storeVars == <<state, _nextState, dirtyState, pendingActions, stateHistory,
               listeners, debug, async, heap, flushQueue, pc, frame, calls,
               handles, cycle>>
helperVars == <<modelArray, items, returned, schema, obj, errors>>

vars == <<state, _nextState, dirtyState, pendingActions, stateHistory,
          listeners, debug, async, heap, flushQueue, pc, frame, calls,
          handles, cycle, origin, modelArray, items, returned, schema, obj,
          errors>>

-----------------------------------------------------------------------------
(* Bounds of the model *)

MaxRefs == 9
MaxActions == 2

(* Program constants *)

Null == 0
Undefined == 0

Refs == 1..MaxRefs
Callbacks == {"f", "g"}
ActionNames == {"A"}

-----------------------------------------------------------------------------
(* The heap.  A cell is a state object {a, b} (a: Undefined or a reference *)
(* to an array, b: Undefined or a scalar), an array of scalars, or free.   *)

FreeCell == [kind |-> "free", a |-> 0, b |-> 0, elems |-> <<>>]
ObjCell(a, b) == [kind |-> "obj", a |-> a, b |-> b, elems |-> <<>>]
ArrCell(elems) == [kind |-> "arr", a |-> 0, b |-> 0, elems |-> elems]

FreeRefs(h) == {r \in Refs : h[r].kind = "free"}

\* `{}` / `[]` / a clone allocate the next unused cell
NewRef(h) == CHOOSE r \in FreeRefs(h) : \A q \in FreeRefs(h) : r <= q

\* the references reachable from an object: itself and its array
Reach(h, r) == IF r = Null THEN {} ELSE {r} \cup (IF h[r].a = Null THEN {} ELSE {h[r].a})

\* the content of a state object, by value
Deep(h, r) ==
    IF r = Null THEN <<"null">>
    ELSE <<"obj", IF h[r].a = Undefined THEN <<"undefined">> ELSE <<"arr", h[h[r].a].elems>>, h[r].b>>


\* the roots followed each by its array, in a fixed order
Trace(h, roots) ==
    [k \in 1..(2 * Len(roots)) |->
        IF k % 2 = 1 THEN roots[(k + 1) \div 2]
        ELSE IF roots[k \div 2] = Null THEN Null ELSE h[roots[k \div 2]].a]

\* the distinct references of a trace, in the order of their first occurrence
RECURSIVE Order(_, _, _)
Order(tr, k, acc) ==
    IF k > Len(tr) THEN acc
    ELSE IF tr[k] = Null \/ \E j \in 1..Len(acc) : acc[j] = tr[k] THEN Order(tr, k + 1, acc)
    ELSE Order(tr, k + 1, Append(acc, tr[k]))

\* the place of a reference in an order
Rank(ord, r) == IF r = Null THEN Null ELSE CHOOSE n \in 1..Len(ord) : ord[n] = r

\* garbage collection: the cells no root reaches are dropped and the live
\* ones are numbered in trace order (references are opaque to the program)
Sweep(h, ord) ==
    [n \in Refs |->
        IF n <= Len(ord) THEN [h[ord[n]] EXCEPT !.a = Rank(ord, @)] ELSE FreeCell]

-----------------------------------------------------------------------------
(* The world the Store's methods act on; dispatched counts the actions the *)
(* call in progress has sent to the Action Dispatch Bus                    *)

World ==
    [state |-> state, _nextState |-> _nextState, dirtyState |-> dirtyState,
     pendingActions |-> pendingActions, stateHistory |-> stateHistory,
     listeners |-> listeners, debug |-> debug, async |-> async, heap |-> heap,
     flushQueue |-> flushQueue, dispatched |-> 0]

\* Array.prototype.join(',')
RECURSIVE Join(_)
Join(names) ==
    IF names = <<>> THEN ""
    ELSE IF Len(names) = 1 THEN names[1]
    ELSE names[1] \o "," \o Join(Tail(names))

\* Array.prototype.indexOf: the first 0-based position of x, or -1
IndexOf(seq, x) ==
    IF \E i \in 1..Len(seq) : seq[i] = x
    THEN (CHOOSE i \in 1..Len(seq) : seq[i] = x /\ \A j \in 1..(i - 1) : seq[j] # x) - 1
    ELSE -1

\* Array.prototype.splice(index, 1), index >= 0: nothing to remove past the end
Splice1(seq, index) ==
    IF index < Len(seq)
    THEN SubSeq(seq, 1, index) \o SubSeq(seq, index + 2, Len(seq))
    ELSE seq

\* a deep clone that shares the nested array with the original
cloneStateShallow(w) ==
    IF w.state = Null THEN [w |-> w, ret |-> Null]
    ELSE LET src == w.heap[w.state]
             r == NewRef(w.heap)
         IN [w |-> [w EXCEPT !.heap = [@ EXCEPT ![r] = ObjCell(src.a, src.b)]], ret |-> r]

\* Store.cloneState: lodash cloneDeepWith of this.state
cloneState(w) ==
    IF w.state = Null THEN [w |-> w, ret |-> Null]
    ELSE LET src == w.heap[w.state]
             a1 == IF src.a = Undefined THEN Undefined ELSE NewRef(w.heap)
             h1 == IF src.a = Undefined THEN w.heap
                   ELSE [w.heap EXCEPT ![a1] = ArrCell(w.heap[src.a].elems)]
             r == NewRef(h1)
         IN [w |-> [w EXCEPT !.heap = [h1 EXCEPT ![r] = ObjCell(a1, src.b)]], ret |-> r]

\* nextState that clones on every call
nextStateAlwaysClone(w) ==
    LET c == cloneState(w)
    IN [w |-> [c.w EXCEPT !._nextState = c.ret], ret |-> c.ret]

\* Store.nextState
nextState(w) ==
    IF w._nextState # Null THEN [w |-> w, ret |-> w._nextState]
    ELSE LET c == cloneState(w)
         IN [w |-> [c.w EXCEPT !._nextState = c.ret], ret |-> c.ret]

\* StoreManager.queueFlush: one more flush request for this store
queueFlush(w) == [w EXCEPT !.flushQueue = @ + 1]

\* stateChange that requests its flush without marking the store dirty
stateChangeUnflagged(w, actionName, ns) ==
    LET w1 == [w EXCEPT !.pendingActions = Append(@, actionName), !._nextState = ns]
    IN IF ~w1.dirtyState THEN queueFlush(w1) ELSE w1

\* stateChange that requests a flush on every call
stateChangeAlwaysQueues(w, actionName, ns) ==
    queueFlush([w EXCEPT !.pendingActions = Append(@, actionName), !._nextState = ns,
                         !.dirtyState = TRUE])

\* Store.stateChange
stateChange(w, actionName, ns) ==
    LET w1 == [w EXCEPT !.pendingActions = Append(@, actionName), !._nextState = ns]
    IN IF ~w1.dirtyState THEN queueFlush([w1 EXCEPT !.dirtyState = TRUE]) ELSE w1

\* flush that commits the draft and keeps it as the draft
flushCommitKeepsDraft(w) ==
    LET old == NewRef(w.heap)
        copy == IF w.state = Null THEN ObjCell(Undefined, Undefined)
                ELSE ObjCell(w.heap[w.state].a, w.heap[w.state].b)
    IN [w |-> [w EXCEPT !.heap = [@ EXCEPT ![old] = copy], !.state = w._nextState],
        ret |-> old]

\* Store.flush up to its call of notify: ret is the local oldState
flushCommit(w) ==
    LET old == NewRef(w.heap)
        copy == IF w.state = Null THEN ObjCell(Undefined, Undefined)
                ELSE ObjCell(w.heap[w.state].a, w.heap[w.state].b)
        w1 == [w EXCEPT !.heap = [@ EXCEPT ![old] = copy],
                        !.state = w._nextState, !._nextState = Null]
        w2 == IF w.debug
              THEN [w1 EXCEPT !.stateHistory =
                       Append(@, [actionName |-> Join(w.pendingActions), state |-> old])]
              ELSE w1
    IN [w |-> w2, ret |-> old]

\* notify passing (oldState, newState)
listenerArgsSwapped(w, oldState) == [newState |-> oldState, oldState |-> w.state]

\* Store.notify: the arguments of one listener call
listenerArgs(w, oldState) == [newState |-> w.state, oldState |-> oldState]

\* Store.notify after its forEach
notifyEnd(w) == [w EXCEPT !.dirtyState = FALSE]

\* Store.listen: Array.prototype.push returns the new length
listen(w, cb) ==
    [w |-> [w EXCEPT !.listeners = Append(@, cb)], ret |-> Len(w.listeners) + 1]

\* the argument of ignore: a callback or a number
Fn(cb) == [isFn |-> TRUE, fn |-> cb, num |-> 0]
Num(n) == [isFn |-> FALSE, fn |-> "", num |-> n]

\* Store.ignore
ignore(w, callback) ==
    LET index == IF callback.isFn THEN IndexOf(w.listeners, callback.fn)
                 ELSE callback.num - 1
    IN IF index >= 0
       THEN [w |-> [w EXCEPT !.listeners = Splice1(@, index)], ret |-> TRUE]
       ELSE [w |-> w, ret |-> FALSE]

\* Store.__onSeed with no seed functions registered (OnSeed is not used)
__onSeed(w) == nextState(w).w

\* ActionManager.dispatch of the seed action, delivered to __onSeed
dispatch(w) == [__onSeed(w) EXCEPT !.dispatched = @ + 1]

\* Store.seed, the loop body for key "a" (an array or undefined on both sides);
\* done: the method has returned
seedKeyA(w, d, p) ==
    LET value == w.heap[d].a
        arr == NewRef(w.heap)
    IN IF ~p.a.def THEN [w |-> w, done |-> TRUE]
       ELSE IF value # Undefined
            THEN [w |-> [w EXCEPT !.heap = [@ EXCEPT
                           ![arr] = ArrCell(w.heap[value].elems \o p.a.elems),
                           ![d] = ObjCell(arr, w.heap[d].b)]],
                  done |-> FALSE]
            ELSE [w |-> [w EXCEPT !.heap = [@ EXCEPT
                           ![arr] = ArrCell(p.a.elems),
                           ![d] = ObjCell(arr, w.heap[d].b)]],
                  done |-> FALSE]

\* Store.seed, the loop body for key "b" (a scalar or undefined on both sides)
seedKeyB(w, d, p) ==
    LET value == w.heap[d].b
    IN IF p.b = Undefined THEN [w |-> w, done |-> TRUE]
       ELSE IF value = Undefined
            THEN [w |-> [w EXCEPT !.heap = [@ EXCEPT ![d] = ObjCell(w.heap[d].a, p.b)]],
                  done |-> FALSE]
            ELSE [w |-> w, done |-> FALSE]

\* Store.seed; threw: a TypeError left the method
seed(w, p) ==
    IF p.kind = "nonObject" THEN [w |-> w, threw |-> FALSE]
    ELSE IF p.kind = "null" THEN [w |-> w, threw |-> TRUE]
    ELSE IF p.kind \in {"noState", "stateNonObject"} THEN [w |-> w, threw |-> FALSE]
    ELSE LET n == nextState(w)
             d == n.ret
         IN IF d = Null THEN [w |-> dispatch(n.w), threw |-> FALSE]
            ELSE IF p.kind = "stateNull" THEN [w |-> n.w, threw |-> TRUE]
            ELSE LET ka == seedKeyA(n.w, d, p)
                     kb == seedKeyB(ka.w, d, p)
                 IN IF ka.done THEN [w |-> ka.w, threw |-> FALSE]
                    ELSE IF kb.done THEN [w |-> kb.w, threw |-> FALSE]
                    ELSE [w |-> dispatch(kb.w), threw |-> FALSE]

-----------------------------------------------------------------------------
(* Callers: what mutators, components and listeners do with the store *)

\* a mutator's edit of the draft nextState() returned
Edits == [k : {"setB"}, v : {1}] \cup [k : {"setA0"}, v : {2}]

\* d.a[0] = v needs an array with a first element
canEdit(w, d, e) ==
    e.k = "setA0" => (w.heap[d].a # Undefined /\ Len(w.heap[w.heap[d].a].elems) > 0)

\* d.b = v, or d.a[0] = v: an edit in place of the nested array
editDraft(w, d, e) ==
    IF e.k = "setB"
    THEN [w EXCEPT !.heap = [@ EXCEPT ![d] = ObjCell(w.heap[d].a, e.v)]]
    ELSE [w EXCEPT !.heap = [@ EXCEPT ![w.heap[d].a] =
                                ArrCell([w.heap[w.heap[d].a].elems EXCEPT ![1] = e.v])]]

\* a state object built by the caller: {a: [], b: v}
freshState(w, v) ==
    LET arr == NewRef(w.heap)
        h1 == [w.heap EXCEPT ![arr] = ArrCell(<<>>)]
        r == NewRef(h1)
    IN [w |-> [w EXCEPT !.heap = [h1 EXCEPT ![r] = ObjCell(arr, v)]], ret |-> r]

\* the nextState argument of stateChange: the draft, or a state built afresh
Sources == {[fresh |-> FALSE, v |-> 0]} \cup [fresh : {TRUE}, v : {2}]

argOf(w, src) == IF src.fresh THEN freshState(w, src.v) ELSE nextState(w)

\* the payloads of seed: {state: {a: [], b: 2}}, {state: {a: []}}, and the
\* malformed ones
Payloads ==
    [kind : {"object"}, a : [def : {TRUE}, elems : {<<>>}], b : {Undefined, 2}]
    \cup [kind : {"nonObject", "null", "noState", "stateNull"},
          a : [def : {FALSE}, elems : {<<>>}], b : {Undefined}]

Room(n) == Cardinality(FreeRefs(heap)) >= n

\* flush's frame: oldState, the forEach index and length; and, from the moment
\* it was called, the committed state (prev), the draft, the listeners and
\* the cycle's stateChange calls
IdleFrame == [oldState |-> Null, prev |-> Null, draft |-> Null, idx |-> 0, len |-> 0,
              registered |-> <<>>, applied |-> 0, last |-> Null]

\* since the last commit: the number of stateChange calls made outside a
\* notification, the nextState argument of the latest stateChange, and the
\* draft the first nextState() returned
NoCycle == [applied |-> 0, last |-> Null, draft1 |-> Null]

\* nextState() returned d
Noted(cy, d) == IF cy.draft1 = Null THEN [cy EXCEPT !.draft1 = d] ELSE cy

\* stateChange(_, ns) was called, after nextState() if the draft was passed
Applied(cy, src, ns, n) ==
    [(IF src.fresh THEN cy ELSE Noted(cy, ns)) EXCEPT !.applied = @ + n, !.last = ns]

\* a caller drops the handle of a callback that is no longer registered
Held(hs, ls) == [c \in Callbacks |-> IF \E i \in 1..Len(ls) : ls[i] = c THEN hs[c] ELSE 0]

\* everything that holds a reference
Roots(w, fr, cy, cl) ==
    <<w.state, w._nextState, fr.oldState, fr.prev, fr.draft, fr.last, cy.last, cy.draft1>>
        \o [i \in 1..Len(w.stateHistory) |-> w.stateHistory[i].state]
        \o [i \in 1..Len(cl) |-> cl[i].newState]
        \o [i \in 1..Len(cl) |-> cl[i].oldState]

\* the new values of the store's fields, the heap and the collaborators
Install(w, fr, cy, cl) ==
    LET ord == Order(Trace(w.heap, Roots(w, fr, cy, cl)), 1, <<>>)
        at(r) == Rank(ord, r)
    IN /\ state' = at(w.state)
       /\ _nextState' = at(w._nextState)
       /\ dirtyState' = w.dirtyState
       /\ pendingActions' = w.pendingActions
       /\ stateHistory' = [i \in 1..Len(w.stateHistory) |->
                             [w.stateHistory[i] EXCEPT !.state = at(@)]]
       /\ listeners' = w.listeners
       /\ heap' = Sweep(w.heap, ord)
       /\ calls' = [i \in 1..Len(cl) |->
                      [cl[i] EXCEPT !.newState = at(@), !.oldState = at(@)]]
       /\ flushQueue' = w.flushQueue
       /\ frame' = [fr EXCEPT !.oldState = at(@), !.prev = at(@), !.draft = at(@),
                              !.last = at(@)]
       /\ cycle' = [cy EXCEPT !.last = at(@), !.draft1 = at(@)]
       /\ UNCHANGED <<debug, async, origin>>
       /\ UNCHANGED helperVars

\* Store Manager runs one requested flush: Store.flush up to the forEach of notify
StartFlush(w, cy) ==
    LET f == flushCommit([w EXCEPT !.flushQueue = @ - 1])
    IN /\ Install(f.w, [oldState |-> f.ret, prev |-> w.state, draft |-> w._nextState,
                        idx |-> 0, len |-> Len(w.listeners),
                        registered |-> w.listeners,
                        applied |-> cy.applied, last |-> cy.last], NoCycle, <<>>)
       /\ pc' = "notify"

\* StoreManager.queueFlush in synchronous mode flushes before stateChange returns
Settle(w, cy) ==
    IF ~async /\ w.flushQueue > 0
    THEN StartFlush(w, cy)
    ELSE Install(w, IdleFrame, cy, calls) /\ UNCHANGED pc

-----------------------------------------------------------------------------
(* Initial state: a store constructed by a subclass whose constructor set  *)
(* this.state to {a: [1], b: undefined}; debug is off unless the caller    *)
(* turns it on, and config.async is the subclass's choice                  *)

\* the store as constructed, its state being {a: a, b: b} with a an array
\* (def) or undefined
Constructed(dbg, asy, a, b) ==
        /\ heap = [r \in Refs |->
                     IF r = 1 THEN ObjCell(IF a.def THEN 2 ELSE Undefined, b)
                     ELSE IF r = 2 /\ a.def THEN ArrCell(a.elems)
                     ELSE FreeCell]
        /\ state = 1
        /\ _nextState = Null
        /\ dirtyState = FALSE
        /\ pendingActions = <<>>
        /\ stateHistory = <<>>
        /\ listeners = <<>>
        /\ debug = dbg
        /\ async = asy
        /\ flushQueue = 0
        /\ pc = "idle"
        /\ frame = IdleFrame
        /\ calls = <<>>
        /\ handles = [c \in Callbacks |-> 0]
        /\ cycle = NoCycle

\* the last helper call: its name and arguments (args), and what it
\* returned: a boolean (upsertItem, or removeItem's false), a slice
\* (removeItem), nothing, or an exception
Returned(op, args, threw, bool, slice) ==
    [op |-> op, args |-> args, threw |-> threw, bool |-> bool, slice |-> slice]
NoneReturned == Returned("none", <<>>, FALSE, FALSE, <<>>)

\* what validate returned: called is false until it has been called
Validated(threw, errs) == [called |-> TRUE, threw |-> threw, errors |-> errs]
NotValidated == [called |-> FALSE, threw |-> FALSE, errors |-> <<>>]

\* no dump taken, no keyed collection and no validate call in play
NoOrigin == [a |-> [def |-> FALSE, elems |-> <<>>], b |-> Undefined]
NoHelpers ==
    /\ modelArray = <<>> /\ items = <<>> /\ returned = NoneReturned
    /\ schema = <<>> /\ obj = <<>> /\ errors = NotValidated

InitWith(dbg) ==
    \E asy \in BOOLEAN :
        /\ Constructed(dbg, asy, [def |-> TRUE, elems |-> <<1>>], Undefined)
        /\ origin = NoOrigin
        /\ NoHelpers

Init == InitWith(FALSE)

-----------------------------------------------------------------------------
(* Calls made on the store while no flush is running *)

NextStateCall ==
    /\ pc = "idle" /\ Room(2)
    /\ LET n == nextState(World)
       IN /\ Install(n.w, IdleFrame, Noted(cycle, n.ret), calls)
    /\ UNCHANGED <<pc, handles>>

EditCall(e) ==
    /\ pc = "idle" /\ Room(2)
    /\ LET n == nextState(World)
       IN /\ n.ret # Null /\ canEdit(n.w, n.ret, e)
          /\ Install(editDraft(n.w, n.ret, e), IdleFrame, Noted(cycle, n.ret), calls)
    /\ UNCHANGED <<pc, handles>>

StateChangeCall(name, src) ==
    /\ pc = "idle" /\ Room(3)
    /\ Len(pendingActions) < MaxActions
    /\ LET a == argOf(World, src)
       IN /\ Settle(stateChange(a.w, name, a.ret), Applied(cycle, src, a.ret, 1))
    /\ UNCHANGED handles

SeedCall(p) ==
    /\ pc = "idle" /\ Room(3)
    /\ LET r == seed(World, p)
       IN /\ Install(r.w, IdleFrame,
                     IF p.kind \in {"object", "stateNull"}
                     THEN Noted(cycle, r.w._nextState) ELSE cycle, calls)
    /\ UNCHANGED <<pc, handles>>

ListenCall(cb) ==
    /\ pc = "idle"
    /\ \A i \in 1..Len(listeners) : listeners[i] # cb
    /\ LET r == listen(World, cb)
       IN /\ Install(r.w, IdleFrame, cycle, calls)
          /\ handles' = [handles EXCEPT ![cb] = r.ret]
    /\ UNCHANGED pc

IgnoreArgs == {Fn(c) : c \in Callbacks} \cup {Num(n) : n \in 0..(Cardinality(Callbacks) + 1)}

IgnoreCall(arg) ==
    /\ pc = "idle"
    /\ LET r == ignore(World, arg)
       IN /\ Install(r.w, IdleFrame, cycle, calls)
          /\ handles' = Held(handles, r.w.listeners)
    /\ UNCHANGED pc

\* Store Manager, deferred mode: a queued flush runs
RunFlush ==
    /\ pc = "idle" /\ Room(1)
    /\ flushQueue > 0
    /\ StartFlush(World, cycle)
    /\ UNCHANGED handles

-----------------------------------------------------------------------------
(* Store.notify: one step per listener of its forEach *)

\* what the listener being called does before it returns
Bodies ==
    [k : {"return", "throw"}]
    \cup [k : {"stateChange"}, name : ActionNames, src : Sources]
    \cup [k : {"edit"}, e : Edits]
    \cup [k : {"ignore"}, arg : IgnoreArgs]
    \cup [k : {"listen"}, cb : Callbacks]

Entry(cb, args) == [cb |-> cb, newState |-> args.newState, oldState |-> args.oldState]

NotifyCall(body) ==
    /\ pc = "notify"
    /\ frame.idx < frame.len /\ frame.idx < Len(listeners)
    /\ LET cb == listeners[frame.idx + 1]
           made == Append(calls, Entry(cb, listenerArgs(World, frame.oldState)))
           fr == [frame EXCEPT !.idx = @ + 1]
       IN CASE body.k = "return" ->
                 /\ Install(World, fr, cycle, made)
                 /\ UNCHANGED <<pc, handles>>
            [] body.k = "throw" ->
                 /\ Install(World, IdleFrame, cycle, <<>>)
                 /\ pc' = "idle"
                 /\ UNCHANGED handles
            [] body.k = "stateChange" ->
                 /\ Room(2) /\ Len(pendingActions) < MaxActions
                 /\ LET a == argOf(World, body.src)
                    IN /\ Install(stateChange(a.w, body.name, a.ret), fr,
                                  Applied(cycle, body.src, a.ret, 0), made)
                 /\ UNCHANGED <<pc, handles>>
            [] body.k = "edit" ->
                 /\ Room(2)
                 /\ LET n == nextState(World)
                    IN /\ n.ret # Null /\ canEdit(n.w, n.ret, body.e)
                       /\ Install(editDraft(n.w, n.ret, body.e), fr,
                                  Noted(cycle, n.ret), made)
                 /\ UNCHANGED <<pc, handles>>
            [] body.k = "ignore" ->
                 /\ LET r == ignore(World, body.arg)
                    IN /\ Install(r.w, fr, cycle, made)
                       /\ handles' = Held(handles, r.w.listeners)
                 /\ UNCHANGED pc
            [] body.k = "listen" ->
                 /\ \A i \in 1..Len(listeners) : listeners[i] # body.cb
                 /\ LET r == listen(World, body.cb)
                    IN /\ Install(r.w, fr, cycle, made)
                       /\ handles' = [handles EXCEPT ![body.cb] = r.ret]
                 /\ UNCHANGED pc

\* forEach passes over an index the array no longer has
NotifySkip ==
    /\ pc = "notify"
    /\ frame.idx < frame.len /\ frame.idx >= Len(listeners)
    /\ Install(World, [frame EXCEPT !.idx = @ + 1], cycle, calls)
    /\ UNCHANGED <<pc, handles>>

\* the forEach is over: notify clears dirtyState and flush returns
NotifyEnd ==
    /\ pc = "notify"
    /\ frame.idx = frame.len
    /\ Install(notifyEnd(World), IdleFrame, cycle, <<>>)
    /\ pc' = "idle"
    /\ UNCHANGED handles

Next ==
    \/ NextStateCall
    \/ \E e \in Edits : EditCall(e)
    \/ \E name \in ActionNames, src \in Sources : StateChangeCall(name, src)
    \/ \E p \in Payloads : SeedCall(p)
    \/ \E cb \in Callbacks : ListenCall(cb)
    \/ \E arg \in IgnoreArgs : IgnoreCall(arg)
    \/ RunFlush
    \/ \E body \in Bodies : NotifyCall(body)
    \/ NotifySkip
    \/ NotifyEnd

Spec == Init /\ [][Next]_vars


-----------------------------------------------------------------------------
(* Debug mode: the store keeps a history entry per flush.  Mutators apply   *)
(* changes and listeners only read what they are given                      *)

DebugInit == InitWith(TRUE)

DebugNext ==
    \/ NextStateCall
    \/ \E e \in Edits : EditCall(e)
    \/ \E name \in ActionNames, src \in Sources : StateChangeCall(name, src)
    \/ \E cb \in Callbacks : ListenCall(cb)
    \/ RunFlush
    \/ NotifyCall([k |-> "return"])
    \/ NotifyEnd

DebugSpec == DebugInit /\ [][DebugNext]_vars

-----------------------------------------------------------------------------
(* Seeding: a store constructed with some initial state receives seed      *)
(* payloads, among them the dump of another store of the same shape        *)

MaxArr == 3

\* the fields of the state object r: a is an array (def) or undefined
Content(h, r) ==
    [a |-> IF h[r].a = Undefined THEN [def |-> FALSE, elems |-> <<>>]
           ELSE [def |-> TRUE, elems |-> h[h[r].a].elems],
     b |-> h[r].b]

\* Store.dump: JSON.stringify({state: this.state}), a string; stringify
\* leaves out the keys whose value is undefined
dump(w) ==
    IF w.state = Null
    THEN [kind |-> "nonObject", null |-> TRUE,
          a |-> [def |-> FALSE, elems |-> <<>>], b |-> Undefined]
    ELSE [kind |-> "nonObject", null |-> FALSE,
          a |-> Content(w.heap, w.state).a, b |-> Content(w.heap, w.state).b]

\* JSON.parse of a dump: an object carrying a state object, or state: null
JSONparse(text) ==
    [kind |-> IF text.null THEN "stateNull" ELSE "object", a |-> text.a, b |-> text.b]

\* the initial states a store subclass constructs: a is undefined, [] or
\* [1], b is undefined or 1
Shapes ==
    [a : {[def |-> FALSE, elems |-> <<>>], [def |-> TRUE, elems |-> <<>>],
          [def |-> TRUE, elems |-> <<1>>]},
     b : {Undefined, 1}]

\* the committed states of the dumped store, one of the same shape as sh:
\* a field holds an array, or a scalar, where sh's field does
Origins(sh) ==
    [a : IF sh.a.def
         THEN {[def |-> TRUE, elems |-> <<>>], [def |-> TRUE, elems |-> <<1>>],
               [def |-> TRUE, elems |-> <<1, 2>>]}
         ELSE {[def |-> FALSE, elems |-> <<>>]},
     b : IF sh.b # Undefined THEN {1, 2} ELSE {Undefined}]

\* seed's arguments: {state: {...}} with a omitted, [] or [3] and b omitted or
\* 2, and the malformed ones
SeedInputs ==
    [kind : {"object"},
     a : {[def |-> FALSE, elems |-> <<>>], [def |-> TRUE, elems |-> <<>>],
          [def |-> TRUE, elems |-> <<3>>]},
     b : {Undefined, 2}]
    \cup [kind : {"nonObject", "null", "noState", "stateNonObject", "stateNull"},
          a : {[def |-> FALSE, elems |-> <<>>]}, b : {Undefined}]

\* the array seed would build stays within MaxArr elements
seedFits(w, p) ==
    LET d == nextState(w)
    IN (p.kind = "object" /\ d.ret # Null) =>
           Len(Content(d.w.heap, d.ret).a.elems) + Len(p.a.elems) <= MaxArr

\* the store the dump was taken of, as far as dump reads it
Dumped == [state |-> 1,
           heap |-> [r \in Refs |->
                       IF r = 1 THEN ObjCell(IF origin.a.def THEN 2 ELSE Undefined, origin.b)
                       ELSE IF r = 2 /\ origin.a.def THEN ArrCell(origin.a.elems)
                       ELSE FreeCell]]

\* the store is as its constructor left it
Pristine ==
    /\ pc = "idle" /\ _nextState = Null /\ cycle = NoCycle
    /\ pendingActions = <<>> /\ ~dirtyState

\* the dump of the other store is parsed and passed to seed on this store,
\* freshly constructed
ReseedCall ==
    /\ Pristine /\ Room(3)
    /\ SeedCall(JSONparse(dump(Dumped)))

SeedInit ==
    \E sh \in Shapes : \E o \in Origins(sh) :
        /\ Constructed(FALSE, FALSE, sh.a, sh.b)
        /\ origin = o
        /\ NoHelpers

SeedNext ==
    \/ NextStateCall
    \/ \E e \in Edits : EditCall(e)
    \/ \E p \in SeedInputs : seedFits(World, p) /\ SeedCall(p)
    \/ ReseedCall

SeedSpec == SeedInit /\ [][SeedNext]_vars

-----------------------------------------------------------------------------
(* Keyed collections: upsertItem, removeItem and removeItems work on an    *)
(* array of item objects the caller passes.  An item is an object with the *)
(* fields __bID (bID), name (a scalar) and tags (an array), each possibly  *)
(* undefined; the array holds references to items, so that the object a    *)
(* caller passes and the element of the array can be one object.           *)

Keys == {1, 2}

NoTags == [def |-> FALSE, elems |-> <<>>]
Tags(elems) == [def |-> TRUE, elems |-> elems]

\* the item objects the caller has built: {name: 1, tags: [1, 2]},
\* {tags: [3]} and {__bID: 2, name: 2}
Pool == << [bID |-> Undefined, name |-> 1, tags |-> Tags(<<1, 2>>)],
           [bID |-> Undefined, name |-> Undefined, tags |-> Tags(<<3>>)],
           [bID |-> 2, name |-> 2, tags |-> NoTags] >>
ItemRefs == DOMAIN Pool

\* the modelArray argument: an array of item references, or not an array
Arr(elems) == [isArray |-> TRUE, elems |-> elems]
NotArray == [isArray |-> FALSE, elems |-> <<>>]

\* the newItem argument: an item object, null, or a value that is no object
ItemArgs ==
    [kind : {"object"}, ref : ItemRefs] \cup [kind : {"null", "nonObject"}, ref : {0}]

\* the last index i (from 1) with elems[i].__bID === keyValue, or 0
LastIndex(its, elems, keyValue) ==
    IF \E i \in 1..Len(elems) : its[elems[i]].bID = keyValue
    THEN CHOOSE i \in 1..Len(elems) :
             /\ its[elems[i]].bID = keyValue
             /\ \A j \in (i + 1)..Len(elems) : its[elems[j]].bID # keyValue
    ELSE 0

\* the first index i (from 1) with elems[i].__bID === keyValue, or 0
FirstIndex(its, elems, keyValue) ==
    IF \E i \in 1..Len(elems) : its[elems[i]].bID = keyValue
    THEN CHOOSE i \in 1..Len(elems) :
             /\ its[elems[i]].bID = keyValue
             /\ \A j \in 1..(i - 1) : its[elems[j]].bID # keyValue
    ELSE 0

\* merge that replaces an array by the source's
mergeArraysReplacing(dst, src) == src

\* lodash merge of two arrays: the source's elements over the destination's,
\* index by index
mergeArrays(dst, src) ==
    [i \in 1..(IF Len(dst) > Len(src) THEN Len(dst) ELSE Len(src)) |->
        IF i <= Len(src) THEN src[i] ELSE dst[i]]

\* Store.merge: lodash merge(obj1, obj2) changes obj1 in place, skipping the
\* fields undefined in obj2 and merging arrays recursively
merge(its, obj1, obj2) ==
    LET d == its[obj1]
        n == its[obj2]
    IN [its EXCEPT ![obj1] =
          [bID |-> IF n.bID # Undefined THEN n.bID ELSE d.bID,
           name |-> IF n.name # Undefined THEN n.name ELSE d.name,
           tags |-> IF ~n.tags.def THEN d.tags
                    ELSE IF d.tags.def THEN Tags(mergeArrays(d.tags.elems, n.tags.elems))
                    ELSE n.tags]]

\* upsertItem that pushes the item without looking for its key
upsertItemAlwaysPush(its, arr, keyValue, newItem, overwrite) ==
    IF newItem.kind # "object" \/ ~arr.isArray
    THEN [items |-> its, arr |-> arr, ret |-> FALSE, threw |-> FALSE]
    ELSE [items |-> [its EXCEPT ![newItem.ref].bID = keyValue],
          arr |-> Arr(Append(arr.elems, newItem.ref)),
          ret |-> TRUE, threw |-> FALSE]

\* Store.upsertItem; arr is the array after the call (as the caller sees
\* it), threw: a TypeError left the method
upsertItem(its, arr, keyValue, newItem, overwrite) ==
    LET elems == IF arr.isArray THEN arr.elems ELSE <<>>
        back(es) == IF arr.isArray THEN Arr(es) ELSE arr
    IN IF newItem.kind = "nonObject"
       THEN [items |-> its, arr |-> arr, ret |-> FALSE, threw |-> FALSE]
       ELSE IF newItem.kind = "null"
       THEN [items |-> its, arr |-> arr, ret |-> FALSE, threw |-> TRUE]
       ELSE IF its[newItem.ref].bID # Undefined /\ its[newItem.ref].bID # keyValue
       THEN [items |-> its, arr |-> arr, ret |-> FALSE, threw |-> FALSE]
       ELSE LET existing == FirstIndex(its, elems, keyValue)
            IN IF existing = 0
               THEN [items |-> [its EXCEPT ![newItem.ref].bID = keyValue],
                     arr |-> back(Append(elems, newItem.ref)),
                     ret |-> TRUE, threw |-> FALSE]
               ELSE IF overwrite
               THEN [items |-> [its EXCEPT ![newItem.ref].bID = keyValue],
                     arr |-> back([elems EXCEPT ![existing] = newItem.ref]),
                     ret |-> TRUE, threw |-> FALSE]
               ELSE [items |-> [merge(its, elems[existing], newItem.ref)
                                   EXCEPT ![elems[existing]].bID = keyValue],
                     arr |-> back(elems),
                     ret |-> TRUE, threw |-> FALSE]

\* Store.removeItem: it returns the spliced-out slice when found, and false
\* otherwise
removeItem(its, elems, keyValue) ==
    LET existing == FirstIndex(its, elems, keyValue)
    IN IF existing = 0 THEN [elems |-> elems, found |-> FALSE, slice |-> <<>>]
       ELSE [elems |-> Splice1(elems, existing - 1), found |-> TRUE,
             slice |-> <<elems[existing]>>]

\* Store.removeItems: removeItem for each key in turn
RECURSIVE removeItems(_, _, _)
removeItems(its, elems, keyValues) ==
    IF keyValues = <<>> THEN elems
    ELSE removeItems(its, removeItem(its, elems, Head(keyValues)).elems, Tail(keyValues))

\* the lists of keys passed to removeItems
KeyLists == {<<>>} \cup {<<k>> : k \in Keys} \cup {<<k, l>> : k, l \in Keys}

UpsertItemCall(isArray, keyValue, newItem, overwrite) ==
    /\ LET r == upsertItem(items, IF isArray THEN Arr(modelArray) ELSE NotArray,
                           keyValue, newItem, overwrite)
       IN /\ items' = r.items
          /\ modelArray' = IF isArray THEN r.arr.elems ELSE modelArray
          /\ returned' = Returned("upsertItem",
                                  <<isArray, keyValue, newItem, overwrite>>,
                                  r.threw, r.ret, <<>>)
    /\ UNCHANGED <<storeVars, origin, schema, obj, errors>>

RemoveItemCall(keyValue) ==
    /\ LET r == removeItem(items, modelArray, keyValue)
       IN /\ modelArray' = r.elems
          /\ returned' = Returned("removeItem", <<keyValue>>, FALSE, FALSE, r.slice)
    /\ UNCHANGED <<storeVars, origin, items, schema, obj, errors>>

RemoveItemsCall(keyValues) ==
    /\ modelArray' = removeItems(items, modelArray, keyValues)
    /\ returned' = Returned("removeItems", <<keyValues>>, FALSE, FALSE, <<>>)
    /\ UNCHANGED <<storeVars, origin, items, schema, obj, errors>>

\* a store, and beside it an empty collection and the caller's items
CollectionInit ==
    /\ Constructed(FALSE, FALSE, [def |-> TRUE, elems |-> <<1>>], Undefined)
    /\ origin = NoOrigin
    /\ modelArray = <<>> /\ items = Pool /\ returned = NoneReturned
    /\ schema = <<>> /\ obj = <<>> /\ errors = NotValidated

CollectionNext ==
    \/ \E isArray \in BOOLEAN, keyValue \in Keys, newItem \in ItemArgs, overwrite \in BOOLEAN :
           UpsertItemCall(isArray, keyValue, newItem, overwrite)
    \/ \E keyValue \in Keys : RemoveItemCall(keyValue)
    \/ \E keyValues \in KeyLists : RemoveItemsCall(keyValues)

CollectionSpec == CollectionInit /\ [][CollectionNext]_vars

\* removeItem and removeItems on any array of items the caller passes, such
\* as one in which two elements carry the same key
StampedPools ==
    {[r \in ItemRefs |-> [Pool[r] EXCEPT !.bID = ks[r]]] : ks \in [ItemRefs -> Keys]}
ItemArrays ==
    {<<>>} \cup {<<r>> : r \in ItemRefs}
    \cup {<<r, q>> : r, q \in ItemRefs}
    \cup {<<r, q, t>> : r, q, t \in ItemRefs}

RemoveInit ==
    /\ Constructed(FALSE, FALSE, [def |-> TRUE, elems |-> <<1>>], Undefined)
    /\ origin = NoOrigin
    /\ items \in StampedPools
    /\ modelArray \in {es \in ItemArrays : \A i, j \in 1..Len(es) : i # j => es[i] # es[j]}
    /\ returned = NoneReturned
    /\ schema = <<>> /\ obj = <<>> /\ errors = NotValidated

RemoveNext ==
    \/ \E keyValue \in Keys : RemoveItemCall(keyValue)
    \/ \E keyValues \in KeyLists : RemoveItemsCall(keyValues)

RemoveSpec == RemoveInit /\ [][RemoveNext]_vars

-----------------------------------------------------------------------------
(* Store.validate *)

\* values of a field: undefined, null, a string of some length
Lengths == {0, 1, 3}
Leaf(kind, length) == [kind |-> kind, length |-> length]
Leaves == {Leaf("undefined", 0), Leaf("null", 0)} \cup {Leaf("string", n) : n \in Lengths}

\* a value of the validated object's own fields: a leaf, or an object {c: leaf}
Plain(leaf) == [kind |-> leaf.kind, length |-> leaf.length, props |-> [c |-> Leaf("undefined", 0)]]
Nested(leaf) == [kind |-> "object", length |-> 0, props |-> [c |-> leaf]]
Values == {Plain(l) : l \in Leaves} \cup {Nested(l) : l \in Leaves}

\* the object passed to validate: {a: .., b: ..}
Objects(as, bs) == [kind : {"object"}, length : {0}, props : [a : as, b : bs]]

\* obj[field]: a TypeError on undefined and null, undefined on a string
Prop(o, field) ==
    IF o.kind \in {"undefined", "null"} THEN [threw |-> TRUE, value |-> o]
    ELSE IF o.kind = "object" THEN [threw |-> FALSE, value |-> o.props[field]]
    ELSE [threw |-> FALSE, value |-> Leaf("undefined", 0)]

\* one entry of schema[field].validation: its key and its parameters (a limit
\* for minLength and maxLength; for a function whether it returns true; for
\* validate whether the flag is set)
Rule(validation, n, accepts) == [validation |-> validation, n |-> n, accepts |-> accepts]
Limits == {2}
Rules ==
    {Rule("required", 0, TRUE)}
        \cup {Rule(v, n, TRUE) : v \in {"minLength", "maxLength"}, n \in Limits}
        \cup {Rule("custom", 0, acc) : acc \in BOOLEAN}

\* the validation objects of a field: up to two rules under different keys,
\* in the order of their keys
RuleLists ==
    {<<>>} \cup {<<r>> : r \in Rules}
           \cup {rq \in Rules \X Rules : rq[1].validation # rq[2].validation}

\* the validation objects of a field of type object
NestedRuleLists ==
    {<<Rule("validate", 0, TRUE)>>, <<Rule("validate", 0, FALSE)>>,
     <<Rule("required", 0, TRUE), Rule("validate", 0, TRUE)>>}

\* the schema of the nested object: one field c
SubSchemas ==
    {<<[field |-> "c", label |-> "", type |-> "string", validation |-> <<r>>]>> :
         r \in {Rule("required", 0, TRUE)} \cup {Rule("minLength", n, TRUE) : n \in Limits}}

\* the schemas: field a labelled "A", then field b without a label, a string
\* or an object with a schema of its own
Schemas ==
    {<<[field |-> "a", label |-> "A", type |-> "string", validation |-> ra, schema |-> <<>>], db>> :
        ra \in RuleLists,
        db \in [field : {"b"}, label : {""}, type : {"string"}, validation : RuleLists,
                schema : {<<>>}]
               \cup [field : {"b"}, label : {""}, type : {"object"},
                     validation : NestedRuleLists, schema : SubSchemas]}

\* an error message: the label it starts with and the rule it is about
Message(label, validation) == [label |-> label, validation |-> validation]

\* schema[field].label ? schema[field].label : field
Label(d) == IF d.label # "" THEN d.label ELSE d.field

\* the switch on the validation key: what it adds to errors, or a TypeError
\* for value.length on undefined or null
Switch(d, rule, value) ==
    LET none == [threw |-> FALSE, errors |-> <<>>]
        one == [threw |-> FALSE, errors |-> <<Message(Label(d), rule.validation)>>]
        noLength == value.kind \in {"undefined", "null"}
    IN CASE rule.validation = "required" ->
                IF noLength \/ (value.kind = "string" /\ value.length = 0)
                THEN one ELSE none
         [] rule.validation = "minLength" ->
                IF noLength THEN [threw |-> TRUE, errors |-> <<>>]
                ELSE IF value.kind = "string" /\ value.length < rule.n THEN one ELSE none
         [] rule.validation = "maxLength" ->
                IF noLength THEN [threw |-> TRUE, errors |-> <<>>]
                ELSE IF value.kind = "string" /\ value.length > rule.n THEN one ELSE none
         [] rule.validation = "custom" -> IF rule.accepts THEN none ELSE one
         [] OTHER -> none

\* the break at the head of the inner loop: errors is the one list of the
\* whole call, whatever field its messages are about
skipRest(errs) == Len(errs) > 0

RECURSIVE validate(_, _)
RECURSIVE validateFields(_, _, _, _)
RECURSIVE validateRules(_, _, _, _)

\* the inner loop over schema[field].validation from its k-th key on; acc is
\* [threw, errors] so far
validateRules(o, d, k, acc) ==
    IF acc.threw \/ k > Len(d.validation) \/ skipRest(acc.errors) THEN acc
    ELSE LET got == Prop(o, d.field)
             rule == d.validation[k]
         IN IF got.threw THEN [acc EXCEPT !.threw = TRUE]
            ELSE LET sub == IF d.type = "object" /\ rule.validation = "validate" /\ rule.accepts
                            THEN validate(got.value, d.schema)
                            ELSE [threw |-> FALSE, errors |-> <<>>]
                     sw == Switch(d, rule, got.value)
                 IN IF sub.threw THEN [acc EXCEPT !.threw = TRUE]
                    ELSE IF sub.errors # <<>>
                    THEN [acc EXCEPT !.errors = acc.errors \o sub.errors]
                    ELSE IF sw.threw THEN [acc EXCEPT !.threw = TRUE]
                    ELSE validateRules(o, d, k + 1,
                                       [acc EXCEPT !.errors = acc.errors \o sw.errors])

\* the outer loop over the schema's fields from the i-th on
validateFields(o, sch, i, acc) ==
    IF acc.threw \/ i > Len(sch) THEN acc
    ELSE validateFields(o, sch, i + 1, validateRules(o, sch[i], 1, acc))

\* Store.validate: the errors collected (the method returns true for none),
\* or a TypeError
validate(o, sch) == validateFields(o, sch, 1, [threw |-> FALSE, errors |-> <<>>])

ValidateCall ==
    /\ LET r == validate(obj, schema) IN errors' = Validated(r.threw, r.errors)
    /\ UNCHANGED <<storeVars, origin, modelArray, items, returned, schema, obj>>

\* a store, and beside it a schema and an object to validate
ValidateInit ==
    /\ Constructed(FALSE, FALSE, [def |-> TRUE, elems |-> <<1>>], Undefined)
    /\ origin = NoOrigin
    /\ modelArray = <<>> /\ items = <<>> /\ returned = NoneReturned
    /\ schema \in Schemas
    /\ obj \in Objects({Plain(l) : l \in Leaves},
                       IF schema[2].type = "object" THEN Values ELSE {Plain(l) : l \in Leaves})
    /\ errors = NotValidated

ValidateNext == ValidateCall

ValidateSpec == ValidateInit /\ [][ValidateNext]_vars

-----------------------------------------------------------------------------
(* Store.sanitize.  A JavaScript value is undefined, null, a boolean, NaN,  *)
(* a number n or n + 0.5 (half), or a string, a sequence of characters      *)

Und == [kind |-> "undefined", length |-> 0, b |-> FALSE, n |-> 0, half |-> FALSE, s |-> <<>>]
Nul == [Und EXCEPT !.kind = "null"]
NaN == [Und EXCEPT !.kind = "NaN"]
Bool(b) == [Und EXCEPT !.kind = "boolean", !.b = b]
Number(n) == [Und EXCEPT !.kind = "number", !.n = n]
AndAHalf(n) == [Und EXCEPT !.kind = "number", !.n = n, !.half = TRUE]
Str(s) == [Und EXCEPT !.kind = "string", !.s = s, !.length = Len(s)]

Lowers == <<"a", "b", "c", "e", "f", "l", "r", "s", "t", "u">>
Uppers == <<"A", "B", "C", "E", "F", "L", "R", "S", "T", "U">>
Digits == <<"0", "1", "2", "3", "4", "5", "6", "7", "8", "9">>

\* [a-zA-Z]
isLetter(c) == \E i \in DOMAIN Lowers : c = Lowers[i] \/ c = Uppers[i]
isDigit(c) == \E i \in DOMAIN Digits : c = Digits[i]
DigitOf(c) == (CHOOSE i \in DOMAIN Digits : c = Digits[i]) - 1

\* String.prototype.toLowerCase
toLowerCase(s) ==
    [i \in DOMAIN s |->
        IF \E k \in DOMAIN Uppers : s[i] = Uppers[k]
        THEN Lowers[CHOOSE k \in DOMAIN Uppers : s[i] = Uppers[k]]
        ELSE s[i]]

\* String.prototype.trim and its left half
RECURSIVE trimStart(_)
trimStart(s) == IF s # <<>> /\ Head(s) = " " THEN trimStart(Tail(s)) ELSE s
RECURSIVE trimEnd(_)
trimEnd(s) ==
    IF s # <<>> /\ s[Len(s)] = " " THEN trimEnd(SubSeq(s, 1, Len(s) - 1)) ELSE s
trim(s) == trimEnd(trimStart(s))

\* value.replace(/[a-zA-Z]+/gi, '')
replaceLetters(s) == SelectSeq(s, LAMBDA c : ~isLetter(c))

\* the digits s starts with
RECURSIVE leadingDigits(_)
leadingDigits(s) ==
    IF s # <<>> /\ isDigit(Head(s)) THEN <<Head(s)>> \o leadingDigits(Tail(s)) ELSE <<>>

\* the number a sequence of digits writes
RECURSIVE digitsValue(_)
digitsValue(ds) ==
    IF ds = <<>> THEN 0 ELSE 10 * digitsValue(SubSeq(ds, 1, Len(ds) - 1)) + DigitOf(ds[Len(ds)])

\* the decimal digits of a natural number
RECURSIVE digitsOf(_)
digitsOf(n) ==
    IF n < 10 THEN <<Digits[n + 1]>> ELSE digitsOf(n \div 10) \o <<Digits[(n % 10) + 1]>>

\* String(value)
String(v) ==
    CASE v.kind = "string" -> v.s
      [] v.kind = "number" ->
            (IF v.n < 0 THEN <<"-">> \o digitsOf(0 - v.n) ELSE digitsOf(v.n))
                \o (IF v.half THEN <<".", "5">> ELSE <<>>)
      [] v.kind = "boolean" ->
            IF v.b THEN <<"t", "r", "u", "e">> ELSE <<"f", "a", "l", "s", "e">>
      [] v.kind = "null" -> <<"n", "u", "l", "l">>
      [] v.kind = "NaN" -> <<"N", "a", "N">>
      [] OTHER -> <<"u", "n", "d", "e", "f", "i", "n", "e", "d">>

\* parseInt(value): the value as a string, leading blanks skipped, an
\* optional sign, then the longest run of digits; NaN when there is none
parseInt(v) ==
    LET t == trimStart(String(v))
        neg == t # <<>> /\ Head(t) = "-"
        u == IF t # <<>> /\ Head(t) \in {"-", "+"} THEN Tail(t) ELSE t
        ds == leadingDigits(u)
    IN IF ds = <<>> THEN NaN
       ELSE Number(IF neg THEN 0 - digitsValue(ds) ELSE digitsValue(ds))

\* an optional number of a schema entry (min, max, minLength, maxLength)
No == [def |-> FALSE, n |-> 0]
Some(n) == [def |-> TRUE, n |-> n]

\* what a sanitizer gives: a value, or an Error thrown
Clean(v) == [threw |-> FALSE, value |-> v]
Threw == [threw |-> TRUE, value |-> Und]

\* Store.sanitizeInteger
sanitizeInteger(value, schemaConfig) ==
    LET stripped == IF value.kind = "string" THEN Str(replaceLetters(value.s)) ELSE value
        parsed == parseInt(stripped)
    IN IF value.kind = "string" /\ stripped.length = 0 THEN Clean(Str(<<>>))
       ELSE IF schemaConfig.min.def /\ parsed.kind = "number" /\ parsed.n < schemaConfig.min.n
       THEN Threw
       ELSE IF schemaConfig.max.def /\ parsed.kind = "number" /\ parsed.n > schemaConfig.max.n
       THEN Threw
       ELSE IF parsed.kind = "NaN" THEN Clean(Str(<<>>))
       ELSE Clean(parsed)

\* Store.sanitizeString
sanitizeString(value, schemaConfig) ==
    LET str == String(value)
    IN IF schemaConfig.minLength.def /\ Len(str) < schemaConfig.minLength.n THEN Threw
       ELSE IF schemaConfig.maxLength.def /\ Len(str) > schemaConfig.maxLength.n
       THEN Clean(Str(SubSeq(str, 1, schemaConfig.maxLength.n)))
       ELSE Clean(Str(str))

\* Store.sanitizeBoolean
sanitizeBoolean(value, schemaConfig) ==
    IF value.kind = "boolean" THEN Clean(value)
    ELSE IF value.kind = "string" /\ trim(toLowerCase(value.s)) = <<"f", "a", "l", "s", "e">>
    THEN Clean(Bool(FALSE))
    ELSE IF value.kind = "string" /\ trim(toLowerCase(value.s)) = <<"t", "r", "u", "e">>
    THEN Clean(Bool(TRUE))
    ELSE IF parseInt(value) = Number(0) THEN Clean(Bool(FALSE))
    ELSE IF parseInt(value) = Number(1) THEN Clean(Bool(TRUE))
    ELSE Threw

\* Store.sanitizeField, for the entry d of the schema and the value the
\* copied object holds for its field
sanitizeField(d, held) ==
    LET value == IF held.kind = "undefined"
                 THEN (IF d.initial.def THEN d.initial.value ELSE Nul)
                 ELSE held
    IN IF value.kind = "null" THEN Clean(Nul)
       ELSE CASE d.type = "int" -> sanitizeInteger(value, d)
              [] d.type = "string" -> sanitizeString(value, d)
              [] d.type = "bool" -> sanitizeBoolean(value, d)
              [] OTHER -> Clean(Und)

\* Store.sanitize: the clean object's values in the order of the schema's
\* fields, or the Error a field's sanitizer threw
RECURSIVE sanitizeFrom(_, _, _)
sanitizeFrom(o, sch, i) ==
    IF i > Len(sch) THEN [threw |-> FALSE, values |-> <<>>]
    ELSE LET one == sanitizeField(sch[i], o[sch[i].field])
             rest == sanitizeFrom(o, sch, i + 1)
         IN IF one.threw \/ rest.threw THEN [threw |-> TRUE, values |-> <<>>]
            ELSE [threw |-> FALSE, values |-> <<one.value>> \o rest.values]
sanitize(o, sch) == sanitizeFrom(o, sch, 1)

\* an entry of a schema as Store.int, Store.string and Store.bool build it
\* from their defaults and the caller's params
SchemaEntry(field, type, initial, validation, min, max, minLength, maxLength) ==
    [field |-> field, label |-> "", type |-> type, schema |-> <<>>,
     initial |-> [def |-> TRUE, value |-> initial], validation |-> validation,
     min |-> min, max |-> max, minLength |-> minLength, maxLength |-> maxLength]
Bounded == {No} \cup {Some(n) : n \in Limits}
IntEntries(field) ==
    {SchemaEntry(field, "int", Number(0), v, mn, mx, No, No) :
        v \in {<<>>, <<Rule("required", 0, TRUE)>>}, mn \in Bounded, mx \in Bounded}
StringEntries(field) ==
    {SchemaEntry(field, "string", i, v, No, No, mn, mx) :
        i \in {Str(<<>>), Str(<<"a", "b">>)},
        v \in {<<>>, <<Rule("required", 0, TRUE)>>}
                  \cup {<<Rule(r, n, TRUE)>> : r \in {"minLength", "maxLength"}, n \in Limits},
        mn \in Bounded, mx \in Bounded}
BoolEntries(field) ==
    {SchemaEntry(field, "bool", Bool(FALSE), v, No, No, No, No) :
        v \in {<<>>, <<Rule("required", 0, TRUE)>>}}

\* the schemas sanitized against: a field a of any of the three types, alone
\* or followed by a boolean field b
SanitizeSchemas ==
    LET as == IntEntries("a") \cup StringEntries("a") \cup BoolEntries("a")
    IN {<<ea>> : ea \in as} \cup {<<ea, eb>> : ea \in as, eb \in BoolEntries("b")}

\* the values the caller's object holds
Texts ==
    {<<>>, <<" ">>, <<"a">>, <<"a", "b", "c">>, <<"0">>, <<"1">>, <<"2">>, <<"1", "2">>,
     <<"1", "a", "b", "c">>, <<"t", "r", "u", "e">>, <<"T", "R", "U", "E">>,
     <<" ", "T", "r", "u", "e", " ">>, <<"f", "a", "l", "s", "e">>,
     <<"F", "a", "l", "s", "e">>}
InputValues ==
    {Und, Nul, Bool(TRUE), Bool(FALSE), Number(0), Number(1), Number(2), Number(0 - 1),
     AndAHalf(0), AndAHalf(1)} \cup {Str(t) : t \in Texts}

\* the object validate is given for the values of the schema's fields
Model(sch, values) ==
    [kind |-> "object", length |-> 0,
     props |-> [f \in {sch[i].field : i \in DOMAIN sch} |->
                   values[CHOOSE i \in DOMAIN sch : sch[i].field = f]]]

SanitizeCall ==
    /\ LET r == sanitize(obj, schema)
       IN returned' = Returned("sanitize", <<>>, r.threw, FALSE, r.values)
    /\ errors' = NotValidated
    /\ UNCHANGED <<storeVars, origin, modelArray, items, schema, obj>>

\* Store.sanitizeAndValidate: the errors validate finds in the sanitized model
SanitizeAndValidateCall ==
    /\ LET r == sanitize(obj, schema)
           v == validate(Model(schema, r.values), schema)
       IN /\ returned' = Returned("sanitizeAndValidate", <<>>, r.threw, FALSE, r.values)
          /\ errors' = IF r.threw THEN NotValidated ELSE Validated(v.threw, v.errors)
    /\ UNCHANGED <<storeVars, origin, modelArray, items, schema, obj>>

\* a store, and beside it a schema and an object to sanitize
SanitizeInit ==
    /\ Constructed(FALSE, FALSE, [def |-> TRUE, elems |-> <<1>>], Undefined)
    /\ origin = NoOrigin
    /\ modelArray = <<>> /\ items = <<>> /\ returned = NoneReturned
    /\ schema \in SanitizeSchemas
    /\ obj \in [a : InputValues, b : {Und, Bool(TRUE), Number(2)}]
    /\ errors = NotValidated

SanitizeNext == SanitizeCall \/ SanitizeAndValidateCall

SanitizeSpec == SanitizeInit /\ [][SanitizeNext]_vars

-----------------------------------------------------------------------------
(* The store's documented behaviour *)

\* C1: the applyChange calls made after one flush and before the next end in
\* one flush: while the store is idle exactly one flush is requested for them
\* and the draft is the state the last call passed, and the flush that runs
\* for them commits that state with no second flush left requested.
Coalescing ==
    /\ (pc = "idle" /\ cycle.applied > 0) =>
           (flushQueue = 1 /\ _nextState = cycle.last)
    /\ (pc = "notify" /\ frame.applied > 0) =>
           (state = frame.last /\ flushQueue = 0)

\* C2: a draft a listener applied during a notification is still pending when
\* that flush has returned: the store is dirty, the draft is the one applied
\* and a flush is requested for it.
ReentrantApplyStaysPending ==
    (pc = "idle" /\ cycle.applied = 0 /\ cycle.last # Null) =>
        (dirtyState /\ _nextState = cycle.last /\ flushQueue > 0)

FlushReturns == pc = "notify" /\ frame.idx = frame.len

\* C4 as stated: when flush returns normally the committed state is the draft
\* held when it was called, the draft is null and dirty is false.
FlushPostconditionAsStated ==
    FlushReturns =>
        LET w == notifyEnd(World)
        IN w.state = frame.draft /\ w._nextState = Null /\ ~w.dirtyState

\* C4: when flush returns normally the committed state is the draft held when
\* it was called and dirty is false; the draft is null unless a listener
\* obtained or applied a draft during the notification, and then that draft
\* is the one left.
FlushPostcondition ==
    FlushReturns =>
        LET w == notifyEnd(World)
        IN /\ w.state = frame.draft /\ frame.draft # Null
           /\ ~w.dirtyState
           /\ w._nextState = (IF cycle.last # Null THEN cycle.last ELSE cycle.draft1)

FlushPostconditionWitness ==
    /\ FlushReturns /\ Len(calls) >= 1
    /\ cycle = NoCycle /\ _nextState = Null
    /\ Deep(heap, state) # Deep(heap, frame.prev)

\* C5: during a flush every listener call made so far got as newState the
\* state this flush committed and as oldState flush's copy of the state
\* committed before it: another object with the same fields, sharing their
\* values.
ListenerArgsPair ==
    (pc = "notify") =>
        \A i \in 1..Len(calls) :
            /\ calls[i].newState = state /\ state = frame.draft
            /\ calls[i].oldState = frame.oldState
            /\ frame.oldState \notin {Null, frame.prev, state}
            /\ heap[frame.oldState].kind = "obj"
            /\ heap[frame.oldState].a = heap[frame.prev].a
            /\ heap[frame.oldState].b = heap[frame.prev].b

ListenerArgsPairWitness ==
    /\ pc = "notify" /\ Len(calls) = 2
    /\ Deep(heap, state) # Deep(heap, frame.prev)

\* the callbacks notify has called in this flush, in call order
Called == [i \in 1..Len(calls) |-> calls[i].cb]

Position(seq, c) == CHOOSE i \in 1..Len(seq) : seq[i] = c

\* C6: when a flush returns, the listeners it called were registered when it
\* started and were called in registration order, each once, and every
\* listener registered at its start and still registered was called.
AllNotifiedInOrder ==
    FlushReturns =>
        /\ \A i \in 1..Len(Called) : \E k \in 1..Len(frame.registered) :
               frame.registered[k] = Called[i]
        /\ \A i, j \in 1..Len(Called) :
               (i < j) => Position(frame.registered, Called[i])
                              < Position(frame.registered, Called[j])
        /\ \A k \in 1..Len(frame.registered) :
               (\E n \in 1..Len(listeners) : listeners[n] = frame.registered[k])
                   => \E i \in 1..Len(Called) : Called[i] = frame.registered[k]

\* seq without the callback c
Without(seq, c) == SelectSeq(seq, LAMBDA x : x # c)

\* C7: whatever listen and ignore calls came after, ignore(handle) with the
\* handle listen(cb) returned removes cb, still registered, and nothing else.
StableHandle ==
    \A cb \in Callbacks :
        (handles[cb] # 0) =>
            ignore(World, Num(handles[cb])).w.listeners = Without(listeners, cb)

\* C8: ignore returns true exactly when it made the listener sequence one
\* element shorter, and when it returns false the sequence is unchanged.
IgnoreReturnsRemoval ==
    \A arg \in IgnoreArgs :
        LET r == ignore(World, arg)
        IN /\ r.ret <=> (Len(r.w.listeners) = Len(listeners) - 1)
           /\ ~r.ret => (r.w.listeners = listeners)

\* nextState() in this state returns a new object, a deep clone of the
\* committed state that shares nothing with it, and makes it the draft
FreshClone ==
    LET n == nextState(World)
    IN /\ n.ret \in FreeRefs(heap)
       /\ n.w._nextState = n.ret
       /\ Deep(n.w.heap, n.ret) = Deep(heap, state)
       /\ Reach(n.w.heap, n.ret) \cap Reach(heap, state) = {}
       /\ \A r \in Refs \ FreeRefs(heap) : n.w.heap[r] = heap[r]

\* C9 as stated: since the last flush committed, nextState() returns the
\* instance its first call returned, and when it has not been called since
\* then it returns a fresh clone of the committed state.
SameDraftAsStated ==
    /\ (cycle.draft1 # Null) => (nextState(World).ret = cycle.draft1)
    /\ (pc = "idle" /\ cycle.draft1 = Null /\ Room(2)) => FreshClone

\* C9: the draft is the object the latest stateChange since the last commit
\* was given, or else the one the first nextState() since then returned, or
\* else null; nextState() returns the draft unchanged when there is one and
\* otherwise a fresh clone of the committed state.
SameDraft ==
    /\ _nextState = (IF cycle.last # Null THEN cycle.last ELSE cycle.draft1)
    /\ (_nextState # Null) =>
           LET n == nextState(World) IN n.ret = _nextState /\ n.w = World
    /\ (_nextState = Null /\ Room(2)) => FreshClone

SameDraftWitness ==
    /\ cycle.draft1 # Null /\ cycle.last # Null /\ cycle.last # cycle.draft1
    /\ _nextState = cycle.last
    /\ Deep(heap, cycle.draft1) # Deep(heap, state)

\* C10: the content of the committed state changes only in the step in which
\* flush commits the draft, and a draft shares no object with the committed
\* state.
CommittedChangesInFlush ==
    /\ [](Reach(heap, _nextState) \cap Reach(heap, state) = {})
    /\ [][(Deep(heap', state') # Deep(heap, state)) =>
              (pc = "idle" /\ pc' = "notify")]_vars

CommittedChangesInFlushWitness ==
    /\ pc = "idle" /\ _nextState # Null /\ listeners # <<>>
    /\ heap[heap[_nextState].a].elems # heap[heap[state].a].elems
    /\ heap[_nextState].b # heap[state].b

\* seed's well-formed and malformed arguments
ValidSeedInputs == {p \in SeedInputs : p.kind = "object"}
InvalidSeedInputs == SeedInputs \ ValidSeedInputs

\* C11: seed({state: p}) merges every key of the draft on its own: two arrays
\* give the draft's array followed by p's, an undefined draft value with a
\* defined p value gives p's value, and anything else leaves the draft's
\* value; a key p omits does not stop the keys after it.
SeedMergesEveryKey ==
    (pc = "idle" /\ Room(3)) =>
        \A p \in ValidSeedInputs :
            LET n == nextState(World)
                before == Content(n.w.heap, n.ret)
                r == seed(World, p)
                after == Content(r.w.heap, r.w._nextState)
            IN /\ after.a = (IF before.a.def /\ p.a.def
                             THEN [def |-> TRUE, elems |-> before.a.elems \o p.a.elems]
                             ELSE IF ~before.a.def /\ p.a.def THEN p.a
                             ELSE before.a)
               /\ after.b = (IF before.b = Undefined /\ p.b # Undefined THEN p.b
                             ELSE before.b)

\* C12: every seed call given an object carrying a state object dispatches
\* exactly one seed action, also when the state object defines only some of
\* the draft's keys.
SeedDispatchesOnce ==
    (pc = "idle" /\ Room(3)) =>
        \A p \in ValidSeedInputs : seed(World, p).w.dispatched = 1

\* C13: for every malformed argument seed throws nothing, dispatches nothing
\* and leaves the draft, the dirty flag and the committed state as they were.
SeedRejectsInvalid ==
    (pc = "idle" /\ Room(3)) =>
        \A p \in InvalidSeedInputs :
            LET r == seed(World, p) IN ~r.threw /\ r.w = World

\* C14: the parsed dump of a store, seeded into a freshly constructed store of
\* the same shape, gives a draft in which every field the constructor
\* initialized has the value it has in the dumped store's committed state.
DumpSeedRoundTrip ==
    (Pristine /\ Room(3)) =>
        LET shape == Content(heap, state)
            r == seed(World, JSONparse(dump(Dumped)))
            draft == Content(r.w.heap, r.w._nextState)
        IN /\ r.w._nextState # Null
           /\ shape.a.def => (draft.a = origin.a)
           /\ (shape.b # Undefined) => (draft.b = origin.b)

\* C15: in a collection built from an empty one by upsertItem, removeItem
\* and removeItems every element carries a key and no two elements carry the
\* same key.
KeyUniqueness ==
    /\ \A i \in 1..Len(modelArray) : items[modelArray[i]].bID \in Keys
    /\ \A i, j \in 1..Len(modelArray) :
           (i # j) => items[modelArray[i]].bID # items[modelArray[j]].bID

KeyUniquenessWitness ==
    /\ Len(modelArray) = 2
    /\ returned.op = "upsertItem" /\ returned.bool
    /\ \E r \in ItemRefs :
           /\ items[r].bID \in Keys
           /\ \A i \in 1..Len(modelArray) : modelArray[i] # r

\* the arguments upsertItem accepts: an array, and an item object carrying no
\* key or the key passed
Accepted(newItem, keyValue) ==
    /\ newItem.kind = "object"
    /\ items[newItem.ref].bID \in {Undefined, keyValue}

\* C16: upsertItem(collection, key, item, true) called twice leaves what it
\* leaves when called once: the same array and items and the same return
\* value; when the call is accepted the element under key is the item,
\* carrying key.
OverwriteIdempotent ==
    \A isArray \in BOOLEAN, keyValue \in Keys, newItem \in ItemArgs :
        LET arr == IF isArray THEN Arr(modelArray) ELSE NotArray
            once == upsertItem(items, arr, keyValue, newItem, TRUE)
            twice == upsertItem(once.items, once.arr, keyValue, newItem, TRUE)
        IN /\ twice = once
           /\ (isArray /\ Accepted(newItem, keyValue)) =>
                  /\ once.ret
                  /\ \E i \in 1..Len(once.arr.elems) :
                         /\ once.arr.elems[i] = newItem.ref
                         /\ once.items[newItem.ref].bID = keyValue
                         /\ \A j \in 1..Len(once.arr.elems) :
                                (j # i) => once.items[once.arr.elems[j]].bID # keyValue

\* an overwriting upsert has just been accepted: its item, one an earlier
\* merge changed, is the first of two elements
OverwriteIdempotentWitness ==
    /\ returned.op = "upsertItem" /\ returned.bool
    /\ returned.args[1] /\ returned.args[4]
    /\ Len(modelArray) = 2
    /\ modelArray[1] = returned.args[3].ref
    /\ items[modelArray[1]].tags # Pool[modelArray[1]].tags

\* upsertItem(.., false) finds keyValue in the array and is given an accepted
\* item: the index found, or 0
MergeCase(keyValue, newItem) ==
    IF Accepted(newItem, keyValue) THEN FirstIndex(items, modelArray, keyValue) ELSE 0

\* C17 as stated: upsertItem with overwrite=false on a key already present
\* keeps the length and the element's position, and the element has the new
\* item's value for every field the new item has and its old value for the
\* others.
MergeKeepsAsStated ==
    \A keyValue \in Keys, newItem \in ItemArgs :
        LET i == MergeCase(keyValue, newItem) IN
        (i # 0) =>
            LET r == upsertItem(items, Arr(modelArray), keyValue, newItem, FALSE)
                before == items[modelArray[i]]
                given == items[newItem.ref]
                after == r.items[r.arr.elems[i]]
            IN /\ r.ret /\ r.arr.elems = modelArray
               /\ after.bID = keyValue
               /\ after.name = (IF given.name # Undefined THEN given.name ELSE before.name)
               /\ after.tags = (IF given.tags.def THEN given.tags ELSE before.tags)

\* C17: upsertItem with overwrite=false on a key already present keeps the
\* length and the element object at its position; the element has the new
\* item's value for every scalar field the new item defines and its old
\* value for the fields the new item lacks; an array field both have holds
\* the new item's elements followed by the old elements beyond their number.
MergeKeeps ==
    \A keyValue \in Keys, newItem \in ItemArgs :
        LET i == MergeCase(keyValue, newItem) IN
        (i # 0) =>
            LET r == upsertItem(items, Arr(modelArray), keyValue, newItem, FALSE)
                before == items[modelArray[i]]
                given == items[newItem.ref]
                after == r.items[r.arr.elems[i]]
            IN /\ r.ret /\ r.arr.elems = modelArray
               /\ after.bID = keyValue
               /\ after.name = (IF given.name # Undefined THEN given.name ELSE before.name)
               /\ ~given.tags.def => (after.tags = before.tags)
               /\ (given.tags.def /\ ~before.tags.def) => (after.tags = given.tags)
               /\ (given.tags.def /\ before.tags.def) =>
                      /\ after.tags.def
                      /\ SubSeq(after.tags.elems, 1, Len(given.tags.elems)) = given.tags.elems
                      /\ Len(after.tags.elems) >= Len(before.tags.elems)
                      /\ \A k \in (Len(given.tags.elems) + 1)..Len(before.tags.elems) :
                             after.tags.elems[k] = before.tags.elems[k]

\* a merging upsert has just put {tags: [3]} over {name: 1, tags: [1, 2]}
MergeKeepsWitness ==
    /\ returned.op = "upsertItem" /\ returned.bool
    /\ returned.args[1] /\ ~returned.args[4]
    /\ \E i \in 1..Len(modelArray) :
           /\ modelArray[i] # returned.args[3].ref
           /\ items[modelArray[i]].bID = returned.args[2]
           /\ items[modelArray[i]].name = 1
           /\ items[modelArray[i]].tags = Tags(<<3, 2>>)

\* C18: upsertItem returns false, throws nothing and leaves the collection
\* as it was when the item is no object (null included), when the collection
\* is no array, or when the item carries another key; in every other case it
\* returns true.
UpsertRejectsMisuse ==
    \A isArray \in BOOLEAN, keyValue \in Keys, newItem \in ItemArgs, overwrite \in BOOLEAN :
        LET arr == IF isArray THEN Arr(modelArray) ELSE NotArray
            r == upsertItem(items, arr, keyValue, newItem, overwrite)
        IN IF isArray /\ Accepted(newItem, keyValue)
           THEN r.ret /\ ~r.threw
           ELSE ~r.ret /\ ~r.threw /\ r.arr = arr
                /\ \A i \in 1..Len(modelArray) : r.items[modelArray[i]] = items[modelArray[i]]

\* C19: removeItem(collection, key) removes the first element whose key
\* equals key and nothing else, keeps the others in their order and returns
\* the removed element as a slice; with no such element it returns false and
\* leaves the collection as it was.
RemoveItemRemovesFirst ==
    \A keyValue \in Keys :
        LET r == removeItem(items, modelArray, keyValue)
            hits == {i \in 1..Len(modelArray) : items[modelArray[i]].bID = keyValue}
        IN IF hits = {}
           THEN ~r.found /\ r.slice = <<>> /\ r.elems = modelArray
           ELSE LET i == CHOOSE h \in hits : \A g \in hits : h <= g
                IN /\ r.found /\ r.slice = <<modelArray[i]>>
                   /\ r.elems = [j \in 1..(Len(modelArray) - 1) |->
                                    IF j < i THEN modelArray[j] ELSE modelArray[j + 1]]

\* removeItem has just removed one of two elements carrying the same key
RemoveItemRemovesFirstWitness ==
    /\ returned.op = "removeItem" /\ returned.slice # <<>>
    /\ \E k \in 1..Len(modelArray) :
           items[modelArray[k]].bID = items[returned.slice[1]].bID

\* the value of the i-th field of schema in obj breaks the field's first
\* rule, a rule that throws on no value
BreaksFirstRule(i) ==
    /\ schema[i].validation # <<>>
    /\ LET rule == schema[i].validation[1]
           value == obj.props[schema[i].field]
       IN \/ rule.validation = "required" /\ value.kind \in {"undefined", "null"}
          \/ rule.validation = "required" /\ value.kind = "string" /\ value.length = 0
          \/ rule.validation = "minLength" /\ value.kind = "string" /\ value.length < rule.n
          \/ rule.validation = "maxLength" /\ value.kind = "string" /\ value.length > rule.n
          \/ rule.validation = "custom" /\ ~rule.accepts

\* C20: validate stops at the first error within one field and still
\* evaluates the following fields: when the call returns, the error list
\* holds a message for every field whose value breaks the first rule of that
\* field, and at most one message of each field's own rules.
ErrorsPerField ==
    (errors.called /\ ~errors.threw) =>
        \A i \in 1..Len(schema) :
            LET own == {k \in 1..Len(errors.errors) : errors.errors[k].label = Label(schema[i])}
            IN /\ BreaksFirstRule(i) => own # {}
               /\ \A k, l \in own : k = l

\* validate returns true for the schema's initial() values
SatisfiedByDefaults(sch) ==
    validate(Model(sch, [i \in DOMAIN sch |-> sch[i].initial.value]), sch)
        = [threw |-> FALSE, errors |-> <<>>]

\* C21: for a schema whose validation rules its initial() values satisfy,
\* whenever sanitize returns a model without throwing, validate returns true
\* for that model against the same schema: no error and no exception.
SanitizedPassesValidate ==
    (/\ returned.op = "sanitizeAndValidate" /\ ~returned.threw
     /\ SatisfiedByDefaults(schema))
        => (errors.called /\ ~errors.threw /\ errors.errors = <<>>)

\* the inputs the documented sanitizeBoolean accepts: true and false, the
\* words true and false in any letter case, 0 and 1 as a number or as the
\* string of that digit
BooleanOf(value) ==
    CASE value.kind = "boolean" -> Clean(value)
      [] value.kind = "string" /\ trim(toLowerCase(value.s)) = <<"t", "r", "u", "e">> ->
            Clean(Bool(TRUE))
      [] value.kind = "string" /\ trim(toLowerCase(value.s)) = <<"f", "a", "l", "s", "e">> ->
            Clean(Bool(FALSE))
      [] value \in {Number(0), Str(<<"0">>)} -> Clean(Bool(FALSE))
      [] value \in {Number(1), Str(<<"1">>)} -> Clean(Bool(TRUE))
      [] OTHER -> Threw

\* C22: sanitizeBoolean returns true and false as they are, true or false
\* for the words true and false in any letter case, false for 0 and true for
\* 1, and throws for every other input, 2 and "1abc" among them.
SanitizeBooleanStrict ==
    (schema[1].type = "bool") =>
        sanitizeBoolean(obj.a, schema[1]) = BooleanOf(obj.a)

\* C23: stateChange requests a flush from the Store Manager exactly when the
\* store was not dirty when it was called, so that no more than one request
\* is outstanding at a time and none while a flush is running; every call
\* appends its action name, makes its argument the draft and leaves the store
\* dirty, whether it requests a flush or not.
RequestsOnlyWhenClean ==
    /\ flushQueue <= 1
    /\ (pc = "notify") => (flushQueue = 0)
    /\ Room(3) =>
           \A name \in ActionNames, src \in Sources :
               LET a == argOf(World, src)
                   w == stateChange(a.w, name, a.ret)
               IN /\ w.flushQueue = (IF dirtyState THEN flushQueue ELSE flushQueue + 1)
                  /\ w.pendingActions = Append(pendingActions, name)
                  /\ w._nextState = a.ret
                  /\ w.dirtyState

\* a second stateChange has been made on the dirty store and replaced the
\* draft of the first: still one flush requested
RequestsOnlyWhenCleanWitness ==
    /\ pc = "idle" /\ cycle.applied = 2 /\ flushQueue = 1
    /\ cycle.draft1 # Null /\ _nextState = cycle.last /\ cycle.last # cycle.draft1

\* the names of n stateChange calls
Names(n) == [i \in 1..n |-> CHOOSE name \in ActionNames : TRUE]

\* C24: pendingActions holds the names applied since the last flush: a flush
\* leaves it empty, and in debug mode the history entry a flush has appended
\* names the stateChange calls made since the flush before it and no others.
PendingNamesSinceFlush ==
    (pc = "notify") =>
        /\ pendingActions = <<>>
        /\ stateHistory # <<>>
        /\ stateHistory[Len(stateHistory)].actionName = Join(Names(frame.applied))

\* the number of calls notify has made of the callback c in this flush
TimesCalled(c) == Cardinality({i \in 1..Len(calls) : calls[i].cb = c})

\* C25: a listener calling ignore during the notification makes no other
\* listener miss it: when the flush returns, every callback registered at
\* its start and still registered has been called exactly once.
IgnoreSkipsNoListener ==
    FlushReturns =>
        \A c \in Callbacks :
            (/\ \E k \in 1..Len(frame.registered) : frame.registered[k] = c
             /\ \E n \in 1..Len(listeners) : listeners[n] = c)
                => TimesCalled(c) = 1

\* C26: the store is never wedged, not even after a listener threw out of a
\* flush: while no flush is running, a stateChange leaves a flush requested
\* from the Store Manager, which will commit its change and notify.
ApplyAfterThrowRequestsFlush ==
    (pc = "idle" /\ Room(3)) =>
        \A name \in ActionNames, src \in Sources :
            LET a == argOf(World, src)
            IN stateChange(a.w, name, a.ret).flushQueue > 0

\* C27: flush called on a store that has a committed state and no draft
\* leaves the committed state as it was.
FlushWithoutDraftKeepsState ==
    (pc = "idle" /\ _nextState = Null /\ state # Null /\ Room(1)) =>
        LET f == flushCommit(World)
        IN /\ f.w.state # Null
           /\ Deep(f.w.heap, f.w.state) = Deep(heap, state)

=============================================================================
